---------------------------- MODULE Spec2Model ----------------------------
(***************************************************************************)
(* Model of Memo.py, the NITT memo and mail tracking script.                *)
(*                                                                         *)
(* A text (Python str) is a sequence of tokens; "" is <<>>, an f-string or  *)
(* a + is the concatenation \o.  A token is a run of characters that no    *)
(* operation of the script splits ("NITT", "/", ".", "pdf", "DG/CE").      *)
(*                                                                         *)
(* The record file memos/records/memo_records.xlsx is modelled by the       *)
(* cells the claims are about: Memo Number, Status, Current Location and    *)
(* History.  The other columns (Title, Date Received, Type, Signatory,      *)
(* From, To, Sender ...) are written once by Log Memo and read by no        *)
(* handler that writes the file.                                            *)
(***************************************************************************)
EXTENDS Integers, Sequences, FiniteSets, TLC

VARIABLES
    memo_file,   \* the record file: [exists, rows], rows = the sheet's cells
    disk,        \* paths that exist under memos/scanned and memos/attachments
    pc,          \* pc[r]: "idle" (no script run) or "loaded" (line 95 done)
    df_memos,    \* df_memos[r]: the table run r loaded at line 95
    last         \* the last handler that ran: its inputs, what it showed

vars == <<memo_file, disk, pc, df_memos, last>>

----------------------------------------------------------------------------
(* Bounds and inputs *)

\* at most this many records are logged
MaxRecords == 2

\* the two browser sessions whose script runs may interleave
Runs == {1, 2}

T(s) == <<s>>

\* the list of lines 29-37; the dash of the ACTU entry is written as a hyphen
departments ==
    << T("DG/CE"), T("SA"), T("TA"), T("Transport School"), T("Training Department"),
       T("Transport Research & Intelligence Department"),
       T("Transport Technology Centre (TTC)"),
       T("Consultancy Services Department"),
       T("Library & Information Services Department"),
       T("Registry"), T("Bursary"), T("Internal Audit"),
       T("PPP, Partnership & Collaboration Unit"), T("Legal Services Unit"),
       T("Press & Public Relations Unit"), T("Procurement Unit"),
       T("Physical Planning Unit"), T("SERVICOM"),
       T("ACTU - Anti-Corruption & Transparency Unit"), T("Medical Center") >>

DepartmentSet == {departments[i] : i \in 1..Len(departments)}

\* the departments the model's user picks from
DeptChoices == {departments[1], departments[2]}

\* options of the "Forward/Reply To:" selectbox: the placeholder comes first
Placeholder == T("Select Department/User")

ForwardOptions == {Placeholder} \cup DeptChoices

\* what the user types as "Sender Name / Organization"
SenderNames == {T("ACME"), T("N/A")}

\* the destinations a Log Memo form can hold: the page has a "To" selectbox
\* for an Internal memo and a "Sender Name" input for an External one
Destinations ==
    {<<"Internal", d>> : d \in DeptChoices} \cup {<<"External", n>> : n \in SenderNames}

\* what the user types as "Memo Title"
Titles == {<<>>, <<" ">>, <<" ", "M">>}

\* the first four decimal digits of uuid4().int the model draws from
IdChoices == {"1000", "1001"}

\* datetime.now().year during the modelled session
Year == "2026"

scanned_folder == <<"memos", "/", "scanned", "/">>

attachments_folder == <<"memos", "/", "attachments">>

\* an st.file_uploader value: None, or an upload with a name
NoUpload == [present |-> FALSE, name |-> <<>>]

Upload(n) == [present |-> TRUE, name |-> n]

ScanUploads == {NoUpload, Upload(<<"scan", ".", "pdf">>), Upload(<<"scan", ".", "png">>)}

AttachUploads == {NoUpload, Upload(<<"note", ".", "pdf">>)}

----------------------------------------------------------------------------
(* Text helpers *)

IsSpace(c) == c \in {" ", "\t", "\n"}

RECURSIVE LStrip(_)
LStrip(s) == IF s /= <<>> /\ IsSpace(Head(s)) THEN LStrip(Tail(s)) ELSE s

RECURSIVE RStrip(_)
RStrip(s) ==
    IF s /= <<>> /\ IsSpace(s[Len(s)]) THEN RStrip(SubSeq(s, 1, Len(s) - 1)) ELSE s

\* str.strip()
Strip(s) == RStrip(LStrip(s))

\* str.replace(old, new) for a one-token old
RECURSIVE Replace(_, _, _)
Replace(s, old, new) ==
    IF s = <<>> THEN <<>>
    ELSE (IF Head(s) = old THEN <<new>> ELSE <<Head(s)>>) \o Replace(Tail(s), old, new)

\* pdf_path.replace(".pdf", "_stamped.pdf")
RECURSIVE ReplaceDotPdf(_)
ReplaceDotPdf(s) ==
    IF Len(s) < 2 THEN s
    ELSE IF s[1] = "." /\ s[2] = "pdf"
         THEN <<"_stamped", ".", "pdf">> \o ReplaceDotPdf(SubSeq(s, 3, Len(s)))
         ELSE <<Head(s)>> \o ReplaceDotPdf(Tail(s))

\* name.split(".")[-1]
RECURSIVE LastSegment(_)
LastSegment(s) ==
    IF \E i \in 1..Len(s) : s[i] = "."
    THEN LastSegment(Tail(s))
    ELSE s

\* str.lower() on an extension
Lower(s) ==
    [i \in 1..Len(s) |->
        CASE s[i] = "PDF" -> "pdf"
          [] s[i] = "PNG" -> "png"
          [] s[i] = "JPG" -> "jpg"
          [] s[i] = "JPEG" -> "jpeg"
          [] OTHER -> s[i]]

\* os.path.join(a, b)
PathJoin(a, b) ==
    IF b /= <<>> /\ Head(b) = "/" THEN b
    ELSE IF a = <<>> \/ a[Len(a)] = "/" THEN a \o b
    ELSE a \o <<"/">> \o b

\* the file a path names: the operating system reads "a//b" as "a/b"
RECURSIVE NormPath(_)
NormPath(p) ==
    IF Len(p) < 2 THEN p
    ELSE IF p[1] = "/" /\ p[2] = "/" THEN NormPath(Tail(p))
    ELSE <<Head(p)>> \o NormPath(Tail(p))

----------------------------------------------------------------------------
(* Cells.  In a DataFrame a text cell is a str or NaN; a History cell is    *)
(* NaN, a Python list of entries, or a str: the text str(list) of a list.  *)
(* In the sheet a text cell holds a text ("" for an empty cell); a History  *)
(* cell holds the text of a list, or is empty.                              *)

StrCell(s) == [k |-> "str", s |-> s]

NaN == [k |-> "nan", s |-> <<>>]

ListCell(v) == [k |-> "list", v |-> v]

ReprCell(v) == [k |-> "str", v |-> v]

NaNHistory == [k |-> "nan", v |-> <<>>]

EmptyHistory == [k |-> "empty", v |-> <<>>]

\* the texts pandas' readers take for a missing value (keep_default_na)
NAValues ==
    { "#N/A", "#N/A N/A", "#NA", "-1.#IND", "-1.#QNAN", "-NaN", "-nan", "1.#IND",
      "1.#QNAN", "<NA>", "N/A", "NA", "NULL", "NaN", "None", "n/a", "nan", "null" }

IsNAText(s) == s = <<>> \/ (Len(s) = 1 /\ s[1] \in NAValues)

\* pd.read_excel on one text cell
ReadText(s) == IF IsNAText(s) THEN NaN ELSE StrCell(s)

\* pd.read_excel on one History cell: the text of a list is read as a str
ReadHistory(h) == IF h.k = "empty" THEN NaNHistory ELSE ReprCell(h.v)

\* DataFrame.to_excel on one text cell: NaN is written as na_rep = ""
WriteText(c) == IF c.k = "nan" THEN <<>> ELSE c.s

\* DataFrame.to_excel on one History cell: a value that is no number, bool
\* or date is written as str(value); str of a str is the str itself
WriteHistory(c) == IF c.k = "nan" THEN EmptyHistory ELSE ReprCell(c.v)

ReadRow(row) ==
    [MemoNumber |-> ReadText(row.MemoNumber),
     Status |-> ReadText(row.Status),
     CurrentLocation |-> ReadText(row.CurrentLocation),
     History |-> ReadHistory(row.History)]

WriteRow(row) ==
    [MemoNumber |-> WriteText(row.MemoNumber),
     Status |-> WriteText(row.Status),
     CurrentLocation |-> WriteText(row.CurrentLocation),
     History |-> WriteHistory(row.History)]

\* pd.read_excel(memo_file)
read_excel(f) == [i \in 1..Len(f.rows) |-> ReadRow(f.rows[i])]

\* df.to_excel(memo_file, index=False): the file as a complete write leaves it
to_excel(df) == [exists |-> TRUE, rows |-> [i \in 1..Len(df) |-> WriteRow(df[i])]]

\* df['History'].apply(lambda x: [] if pd.isna(x) else x)
FillHistory(df) ==
    [i \in 1..Len(df) |->
        [df[i] EXCEPT !.History = IF @.k = "nan" THEN ListCell(<<>>) ELSE @]]

\* load_memos()
load_memos == IF memo_file.exists THEN FillHistory(read_excel(memo_file)) ELSE <<>>

\* generate_memo_number(), uid the first four digits of uuid4().int
generate_memo_number(uid) == <<"NITT", "/", "DG", "/", Year, "/", uid>>

\* the table save_memo_record(data) hands to to_excel
SaveTable(f, data) ==
    IF f.exists
    THEN FillHistory(read_excel(f) \o <<[data EXCEPT !.History = NaNHistory]>>)
    ELSE <<[data EXCEPT !.History = ListCell(<<>>)]>>

\* memo_data of the Log Memo page, as a row of DataFrame([data])
MemoData(memo_number, memo_type, to_department, sender_name) ==
    [MemoNumber |-> StrCell(memo_number),
     Status |-> StrCell(T("Pending")),
     CurrentLocation |->
        StrCell(IF memo_type = "Internal" THEN to_department ELSE sender_name),
     History |-> NaNHistory]

----------------------------------------------------------------------------
(* Files *)

\* the directories lines 19-21 make; no other line makes a directory
Dirs ==
    { <<"memos">>, <<"memos", "/", "scanned">>, <<"memos", "/", "records">>,
      <<"memos", "/", "attachments">> }

\* os.path.dirname of a normalised path
RECURSIVE DirName(_)
DirName(p) ==
    IF p = <<>> THEN <<>>
    ELSE IF p[Len(p)] = "/" THEN SubSeq(p, 1, Len(p) - 1)
    ELSE DirName(SubSeq(p, 1, Len(p) - 1))

\* open(p, "wb") raises FileNotFoundError unless the directory of p exists
CanCreate(p) == DirName(NormPath(p)) \in Dirs

\* the sheets a to_excel that raises may leave behind: to_excel opens the
\* file for writing before it writes the cells, so the file is as before
\* (the open raised) or holds the rows written so far
PartialWrites(f, table) ==
    {f} \cup {[exists |-> TRUE, rows |-> SubSeq(to_excel(table).rows, 1, k)] :
                k \in 0..(Len(table) - 1)}

----------------------------------------------------------------------------
(* Page 1: Log Memo, the "Save Memo Record" button (lines 127-163) *)

ErrTitle == T("Please enter memo title.")

ErrUpload == T("Please upload scanned memo.")

SaveSuccess == T("Memo logged successfully!")

Exception == T("exception")

\* title.strip() == ""
TitleIsBlank_NoStrip(title) == title = <<>>

TitleIsBlank(title) == Strip(title) = <<>>

\* scanned_file_path of line 135
ScannedFilePath(memo_number, uploaded_file) ==
    scanned_folder \o <<"/">> \o Replace(memo_number, "/", "-") \o <<".">>
        \o LastSegment(uploaded_file.name)

IsPdf(uploaded_file) == Lower(LastSegment(uploaded_file.name)) = <<"pdf">>

\* the record file when a step of the handler raises: the steps before
\* save_memo_record leave it alone
RecordFileOnRaise_SavedFirst(f, step, table) ==
    IF step = "rewrite" THEN PartialWrites(f, table) ELSE {to_excel(table)}

RecordFileOnRaise(f, step, table) ==
    IF step = "rewrite" THEN PartialWrites(f, table) ELSE {f}

Outcome(f, d, shown, failed, rejected) ==
    [file |-> f, disk |-> d, shown |-> shown, failed |-> failed, rejected |-> rejected]

\* the steps of the two handlers at which an I/O error can strike
Steps == {"scan", "stamp", "read", "rewrite", "attach"}

\* every way one press of "Save Memo Record" can end; faults: the steps at
\* which the run's environment may raise an I/O error
SaveOutcomes(f, d, title, uploaded_file, memo_type, dest, uid, faults) ==
    IF TitleIsBlank(title) THEN {Outcome(f, d, {ErrTitle}, "none", "title")}
    ELSE IF ~uploaded_file.present THEN {Outcome(f, d, {ErrUpload}, "none", "upload")}
    ELSE
      LET memo_number == generate_memo_number(uid)
          path == ScannedFilePath(memo_number, uploaded_file)
          d1 == d \cup {NormPath(path)}
          d2 == IF IsPdf(uploaded_file) THEN d1 \cup {NormPath(ReplaceDotPdf(path))} ELSE d1
          data == MemoData(memo_number, memo_type, dest, dest)
          table == SaveTable(f, data)
          raised(step, dd) ==
              {Outcome(ff, dd, {Exception}, step, "none") :
                  ff \in RecordFileOnRaise(f, step, table)}
          may(step, dd) == IF step \in faults THEN raised(step, dd) ELSE {}
      IN  IF ~CanCreate(path) THEN raised("scan", d)
          ELSE may("scan", d)
               \cup (IF IsPdf(uploaded_file) THEN may("stamp", d1) ELSE {})
               \cup (IF f.exists THEN may("read", d2) ELSE {})
               \cup may("rewrite", d2)
               \cup {Outcome(to_excel(table), d2, {SaveSuccess}, "none", "none")}

----------------------------------------------------------------------------
(* Page 3: Preview & Approve / Forward (lines 247-327) *)

NoMemos == T("No memos to preview.")

NotFound == T("Scanned memo file not found.")

Preview == T("preview")

\* df_memos[df_memos['Memo Number'] == selected_memo].index[0]
memo_index(df, selected_memo) ==
    CHOOSE i \in 1..Len(df) :
        /\ df[i].MemoNumber = StrCell(selected_memo)
        /\ \A j \in 1..(i - 1) : df[j].MemoNumber /= StrCell(selected_memo)

\* the paths lines 267-273 probe
ProbedPaths(selected_memo) ==
    {PathJoin(scanned_folder, selected_memo \o <<".", ext>>) :
        ext \in {"pdf", "png", "jpg", "jpeg"}}

\* os.path.exists(scanned_file_path) at line 274
ScannedFound(d, selected_memo) ==
    \E p \in ProbedPaths(selected_memo) : NormPath(p) \in d

PreviewShown(d, selected_memo) ==
    IF ScannedFound(d, selected_memo) THEN {Preview} ELSE {NotFound}

ForwardSuccess(forward_to) ==
    <<"Memo forwarded/replied to ">> \o forward_to \o <<" successfully!">>

Entry(forward_to, comment, uploaded_attachment) ==
    [Date |-> <<Year, "-MM-DD HH:MM">>,
     Action |-> T("Forwarded/Reply"),
     To |-> forward_to,
     Comment |-> comment,
     Attachment |-> IF uploaded_attachment.present THEN uploaded_attachment.name ELSE T("None")]

\* df_memos after lines 297-310
Forwarded(df, idx, forward_to, comment, uploaded_attachment) ==
    LET cell == df[idx].History
        history == IF cell.k = "list" THEN cell.v ELSE <<>>
    IN  [df EXCEPT ![idx] =
            [@ EXCEPT
                !.History = ListCell(Append(history, Entry(forward_to, comment, uploaded_attachment))),
                !.CurrentLocation = StrCell(forward_to),
                !.Status = StrCell(<<"Forwarded to ">> \o forward_to)]]

\* attach_path of line 314
AttachPath(selected_memo, uploaded_attachment) ==
    PathJoin(attachments_folder, selected_memo \o <<"_">> \o uploaded_attachment.name)

\* every way one press of "Forward/Reply" can end
ForwardOutcomes(f, d, df, sel, forward_to, comment, uploaded_attachment, faults) ==
    LET selected_memo == df[sel].MemoNumber.s
        idx == memo_index(df, selected_memo)
        table == Forwarded(df, idx, forward_to, comment, uploaded_attachment)
        shown == PreviewShown(d, selected_memo)
        apath == AttachPath(selected_memo, uploaded_attachment)
        d1 == IF uploaded_attachment.present THEN d \cup {NormPath(apath)} ELSE d
        raised(step, dd) ==
            {Outcome(ff, dd, shown \cup {Exception}, step, "none") :
                ff \in RecordFileOnRaise(f, step, table)}
    IN  IF uploaded_attachment.present /\ ~CanCreate(apath) THEN raised("attach", d)
        ELSE (IF "attach" \in faults /\ uploaded_attachment.present
              THEN raised("attach", d) ELSE {})
             \cup (IF "rewrite" \in faults THEN raised("rewrite", d1) ELSE {})
             \cup {Outcome(to_excel(table), d1, shown \cup {ForwardSuccess(forward_to)},
                           "none", "none")}

----------------------------------------------------------------------------
(* The script runs.  Streamlit runs the script from the top on every        *)
(* interaction: line 95 loads the table, then the page's code runs with     *)
(* the button that was pressed.  Sessions run in threads of their own.      *)

NoData == MemoData(<<>>, "Internal", <<>>, <<>>)

NoOp ==
    [op |-> "none", run |-> 0, title |-> <<>>, upload |-> NoUpload, data |-> NoData,
     sel |-> 0, to |-> <<>>, comment |-> <<>>, shown |-> {}, failed |-> "none",
     rejected |-> "none", stale |-> FALSE]

Init ==
    /\ memo_file = [exists |-> FALSE, rows |-> <<>>]
    /\ disk = {}
    /\ pc = [r \in Runs |-> "idle"]
    /\ df_memos = [r \in Runs |-> <<>>]
    /\ last = NoOp

\* line 95: df_memos = load_memos()
Start(r) ==
    /\ pc[r] = "idle"
    /\ pc' = [pc EXCEPT ![r] = "loaded"]
    /\ df_memos' = [df_memos EXCEPT ![r] = load_memos]
    /\ UNCHANGED <<memo_file, disk, last>>

\* the script run ends: its table is dropped
EndRun(r) ==
    /\ pc' = [pc EXCEPT ![r] = "idle"]
    /\ df_memos' = [df_memos EXCEPT ![r] = <<>>]

\* lines 106-163 with "Save Memo Record" pressed
LogMemo(r, faults, form) ==
    /\ pc[r] = "loaded"
    /\ \E title \in form.titles, uploaded_file \in form.uploads, dest \in form.dests,
          uid \in form.ids :
         \E o \in SaveOutcomes(memo_file, disk, title, uploaded_file, dest[1], dest[2],
                               uid, faults) :
            /\ Len(o.file.rows) <= MaxRecords
            /\ memo_file' = o.file
            /\ disk' = o.disk
            /\ last' = [NoOp EXCEPT !.op = "save", !.run = r,
                            !.title = IF o.failed = "none" THEN title ELSE <<>>,
                            !.upload = IF o.failed = "none" THEN uploaded_file ELSE NoUpload,
                            !.data = IF o.rejected = "none" /\ o.failed = "none"
                                     THEN MemoData(generate_memo_number(uid), dest[1],
                                                   dest[2], dest[2])
                                     ELSE NoData,
                            !.shown = o.shown, !.failed = o.failed,
                            !.rejected = o.rejected]
    /\ EndRun(r)

\* lines 247-288 and 321-327: the page with no button pressed
PreviewMemo(r) ==
    /\ pc[r] = "loaded"
    /\ IF df_memos[r] = <<>>
       THEN last' = [NoOp EXCEPT !.op = "preview", !.run = r, !.shown = {NoMemos}]
       ELSE \E sel \in 1..Len(df_memos[r]) :
              last' = [NoOp EXCEPT !.op = "preview", !.run = r, !.sel = sel,
                           !.shown = PreviewShown(disk, df_memos[r][sel].MemoNumber.s)]
    /\ EndRun(r)
    /\ UNCHANGED <<memo_file, disk>>

\* the table the Forward/Reply handler updates and writes: the global
\* df_memos of line 95
ForwardSource_Reread(r) == load_memos

ForwardSource(r) == df_memos[r]

Comments == {T("ok")}

\* lines 247-327 with "Forward/Reply" pressed
ForwardReply(r, faults, form) ==
    /\ pc[r] = "loaded"
    /\ df_memos[r] /= <<>>
    /\ ForwardSource(r) /= <<>>
    /\ \E sel \in 1..Len(ForwardSource(r)), forward_to \in form.targets,
          comment \in Comments, uploaded_attachment \in form.attachments :
         \E o \in ForwardOutcomes(memo_file, disk, ForwardSource(r), sel, forward_to,
                                  comment, uploaded_attachment, faults) :
            /\ memo_file' = o.file
            /\ disk' = o.disk
            /\ last' = [NoOp EXCEPT !.op = "forward", !.run = r,
                            !.sel = IF o.failed = "none" THEN sel ELSE 0,
                            !.to = IF o.failed = "none" THEN forward_to ELSE <<>>,
                            !.comment = IF o.failed = "none" THEN comment ELSE <<>>,
                            !.upload = uploaded_attachment, !.shown = o.shown,
                            !.failed = o.failed,
                            !.stale = (df_memos[r] /= load_memos)]
    /\ EndRun(r)

\* what the user of a specification enters in the forms
FullForm ==
    [titles |-> Titles, uploads |-> ScanUploads, dests |-> Destinations,
     ids |-> IdChoices, targets |-> ForwardOptions, attachments |-> AttachUploads]

\* one session, one script run at a time, on a disk that raises no I/O error
NextOne ==
    \/ Start(1)
    \/ LogMemo(1, {}, FullForm)
    \/ PreviewMemo(1)
    \/ ForwardReply(1, {}, FullForm)

SpecOne == Init /\ [][NextOne]_vars

\* the forms of the session that meets I/O errors: internal memos to the
\* first department, forwarded to the second
ShortForm ==
    [titles |-> Titles, uploads |-> ScanUploads,
     dests |-> {<<"Internal", departments[1]>>},
     ids |-> IdChoices, targets |-> {departments[2]}, attachments |-> AttachUploads]

\* one session on a disk where every write step may raise
NextFaulty ==
    \/ Start(1)
    \/ LogMemo(1, Steps, ShortForm)
    \/ PreviewMemo(1)
    \/ ForwardReply(1, Steps, ShortForm)

SpecFaulty == Init /\ [][NextFaulty]_vars

\* the forms of the sessions that race: valid internal memos with an image
\* and forwards without attachment
RaceForm ==
    [titles |-> {<<" ", "M">>}, uploads |-> {Upload(<<"scan", ".", "png">>)},
     dests |-> {<<"Internal", departments[1]>>},
     ids |-> IdChoices, targets |-> {departments[2]}, attachments |-> {NoUpload}]

\* two sessions whose script runs interleave, on a disk that raises no
\* I/O error
Next ==
    \E r \in Runs :
        \/ Start(r)
        \/ LogMemo(r, {}, RaceForm)
        \/ PreviewMemo(r)
        \/ ForwardReply(r, {}, RaceForm)

Spec == Init /\ [][Next]_vars

----------------------------------------------------------------------------
(* Properties *)

\* session r's script run ends with this step; last' describes its handler
HandlerStep(r) == pc[r] = "loaded" /\ pc'[r] = "idle"

Saved(l) == l.op = "save" /\ l.rejected = "none" /\ l.failed = "none"

ForwardedOk(l) == l.op = "forward" /\ l.failed = "none"

\* the row the handler of session r picks in its table
PickedIndex(r, sel) == memo_index(df_memos[r], df_memos[r][sel].MemoNumber.s)

\* C1: memo numbers are unique: no two records of the record file carry
\* the same Memo Number.
C1_MemoNumbersUnique ==
    \A i, j \in 1..Len(memo_file.rows) :
        i /= j => memo_file.rows[i].MemoNumber /= memo_file.rows[j].MemoNumber

\* C2: history is append-only: each completed Forward/Reply extends the
\* stored History of the memo by exactly one entry at the end and keeps
\* every earlier entry in its order (so n forwards leave n entries).
C2_HistoryAppendOnly ==
    [][\A r \in Runs :
          (HandlerStep(r) /\ ForwardedOk(last')) =>
             LET idx == PickedIndex(r, last'.sel)
             IN  /\ idx <= Len(memo_file.rows)
                 /\ idx <= Len(memo_file'.rows)
                 /\ memo_file'.rows[idx].History.v =
                       Append(memo_file.rows[idx].History.v,
                              Entry(last'.to, last'.comment, last'.upload))]_vars

\* C3: record append: a completed Save Memo Record adds exactly one record,
\* with Status Pending and Current Location the To department or the sender
\* name, and every earlier record keeps its place, Memo Number, Status and
\* Current Location.
C3_RecordAppend ==
    [][\A r \in Runs :
          (HandlerStep(r) /\ Saved(last')) =>
             LET n == Len(memo_file.rows)
             IN  /\ Len(memo_file'.rows) = n + 1
                 /\ memo_file'.rows[n + 1].MemoNumber = last'.data.MemoNumber.s
                 /\ memo_file'.rows[n + 1].Status = T("Pending")
                 /\ memo_file'.rows[n + 1].CurrentLocation = last'.data.CurrentLocation.s
                 /\ \A i \in 1..n :
                       /\ memo_file'.rows[i].MemoNumber = memo_file.rows[i].MemoNumber
                       /\ memo_file'.rows[i].Status = memo_file.rows[i].Status
                       /\ memo_file'.rows[i].CurrentLocation =
                             memo_file.rows[i].CurrentLocation]_vars

\* C4: routing is a single-record update: a completed Forward/Reply to T
\* sets the picked memo's Current Location to T and its Status to
\* "Forwarded to T" and leaves the number of records and the Memo Number,
\* Status, Current Location and History of every other record unchanged.
C4_SingleRecordUpdate ==
    [][\A r \in Runs :
          (HandlerStep(r) /\ ForwardedOk(last')) =>
             LET idx == PickedIndex(r, last'.sel)
             IN  /\ Len(memo_file'.rows) = Len(memo_file.rows)
                 /\ idx <= Len(memo_file.rows)
                 /\ memo_file'.rows[idx].CurrentLocation = last'.to
                 /\ memo_file'.rows[idx].Status = <<"Forwarded to ">> \o last'.to
                 /\ \A i \in 1..Len(memo_file.rows) :
                       i /= idx => memo_file'.rows[i] = memo_file.rows[i]]_vars

\* a write step of the last handler raised
Raised(l) == l.op \in {"save", "forward"} /\ l.failed /= "none"

SuccessShown(l) ==
    \/ l.op = "save" /\ SaveSuccess \in l.shown
    \/ l.op = "forward" /\ \E t \in ForwardOptions : ForwardSuccess(t) \in l.shown

\* the record file holds what the completed handler of session r wrote
Rewritten(r) ==
    /\ memo_file'.exists
    /\ last'.op = "save" =>
          /\ Len(memo_file'.rows) = Len(memo_file.rows) + 1
          /\ memo_file'.rows[Len(memo_file'.rows)].MemoNumber = last'.data.MemoNumber.s
    /\ last'.op = "forward" =>
          /\ PickedIndex(r, last'.sel) <= Len(memo_file'.rows)
          /\ memo_file'.rows[PickedIndex(r, last'.sel)].Status =
                <<"Forwarded to ">> \o last'.to

\* C5 (as stated): if any write step of Save Memo Record or Forward/Reply
\* raises, the exception shows, no success message is shown and the record
\* file is exactly as before; success is shown only after the rewrite.
C5_FailedWriteLeavesFile ==
    [][\A r \in Runs :
          HandlerStep(r) =>
             /\ Raised(last') =>
                   /\ Exception \in last'.shown
                   /\ ~SuccessShown(last')
                   /\ memo_file' = memo_file
             /\ SuccessShown(last') => Rewritten(r)]_vars

\* C5 (amended): if a write step raises, the exception shows and no success
\* message is shown; if the step comes before the record-file rewrite
\* (scanned file, stamping, attachment, reading the file back) the record
\* file is exactly as before, while a rewrite that raises may leave the
\* file as before or partly written; success is shown only after the
\* rewrite.
C5_FailedWriteIsVisible ==
    [][\A r \in Runs :
          HandlerStep(r) =>
             /\ Raised(last') =>
                   /\ Exception \in last'.shown
                   /\ ~SuccessShown(last')
                   /\ last'.failed /= "rewrite" => memo_file' = memo_file
                   /\ last'.failed = "rewrite" =>
                         \/ memo_file' = memo_file
                         \/ /\ memo_file'.exists
                            /\ Len(memo_file'.rows) <= Len(memo_file.rows)
             /\ SuccessShown(last') => (~Raised(last') /\ Rewritten(r))]_vars

\* a step before the rewrite raised while the record file held a record
C5_Witness ==
    /\ Raised(last)
    /\ last.failed \in {"stamp", "read", "attach"}
    /\ Len(memo_file.rows) > 0

\* the table a completed handler of session r wrote, from the file as it
\* was at the write (Save) or from the table loaded at line 95 (Forward)
WrittenBy(r) ==
    IF last'.op = "save"
    THEN (IF memo_file.exists
          THEN to_excel(FillHistory(read_excel(memo_file))).rows ELSE <<>>)
         \o <<[WriteRow(last'.data) EXCEPT !.History = ReprCell(<<>>)]>>
    ELSE to_excel(Forwarded(df_memos[r], PickedIndex(r, last'.sel), last'.to,
                            last'.comment, last'.upload)).rows

C7_RejectedSaveChangesNothing ==
    [][\A r \in Runs :
          (HandlerStep(r) /\ last'.op = "save" /\ ~Raised(last')) =>
             /\ Strip(last'.title) = <<>> =>
                   /\ last'.shown = {ErrTitle}
                   /\ memo_file' = memo_file /\ disk' = disk
             /\ (Strip(last'.title) /= <<>> /\ ~last'.upload.present) =>
                   /\ last'.shown = {ErrUpload}
                   /\ memo_file' = memo_file /\ disk' = disk
             /\ (Strip(last'.title) /= <<>> /\ last'.upload.present) =>
                   last'.shown = {SaveSuccess}]_vars

\* a whitespace-only title and no upload were rejected with records on file
C7_Witness ==
    /\ last.op = "save"
    /\ last.rejected = "title"
    /\ last.title = <<" ">>
    /\ ~last.upload.present
    /\ Len(memo_file.rows) > 0
    /\ disk /= {}

\* C8: load_memos on an existing record file returns a History column in
\* which every cell is a list, empty for a memo never forwarded.
C8_HistoryCellsAreLists ==
    memo_file.exists =>
        \A i \in 1..Len(load_memos) :
            /\ load_memos[i].History.k = "list"
            /\ memo_file.rows[i].Status = T("Pending") => load_memos[i].History.v = <<>>

\* C9: scanned-file round trip: the Preview page finds the scanned file of
\* the selected memo, so "Scanned memo file not found." is not shown.
C9_ScannedFileFound ==
    (last.op = "preview" /\ last.sel > 0) => NotFound \notin last.shown

\* C10: forward targets are real departments: the Current Location of
\* every record whose Status is not Pending, and the To of every History
\* entry, is a member of the departments list.
C10_TargetsAreDepartments ==
    \A i \in 1..Len(memo_file.rows) :
        LET row == memo_file.rows[i]
        IN  /\ row.Status /= T("Pending") => row.CurrentLocation \in DepartmentSet
            /\ \A k \in 1..Len(row.History.v) : row.History.v[k].To \in DepartmentSet

=============================================================================
